---- MODULE Spec2Model ----
(***************************************************************************)
(* Task expansion of crates/project-expander (tasks_expander.rs).          *)
(*                                                                         *)
(* TasksExpander::expand_deps resolves the declared dependencies of one    *)
(* task against the owning project, the project-query collaborator and     *)
(* the tasks of the candidate projects; TasksExpander::expand_env merges   *)
(* the configured environment files into the task's environment;           *)
(* TasksExpander::expand_inputs and expand_outputs fill and reconcile the  *)
(* task's resolved file sets.  Each public method is one action.  The      *)
(* token expander, the argument parser, the environment substitutor, the   *)
(* environment-file parser and the project query are collaborators whose   *)
(* code lives outside tasks_expander.rs.                                   *)
(***************************************************************************)
EXTENDS Integers, Sequences, FiniteSets, TLC

VARIABLES
    task_deps,               \* task.deps
    declared_deps,           \* history: task.deps as it was declared
    project_tasks,           \* tasks of every project, by project id and task id
    dependency_ids,          \* context.project.get_dependency_ids()
    check_ci_relationships,  \* context.check_ci_relationships
    query,                   \* context.query, on the inputs expand_deps can issue
    deps_call,               \* outcome of the last expand_deps call
    task_inputs,             \* task.inputs
    task_outputs,            \* task.outputs
    input_env,               \* task.input_env
    input_files,             \* task.input_files
    input_globs,             \* task.input_globs
    output_files,            \* task.output_files
    output_globs,            \* task.output_globs
    io_call,                 \* outcome of the last expand_inputs / expand_outputs call
    task_env,                \* task.env
    env_files,               \* task.options.env_files
    files,                   \* the file system, by absolute path
    env_call                 \* outcome of the last expand_env call

deps_vars == <<task_deps, declared_deps, project_tasks, dependency_ids,
               check_ci_relationships, query, deps_call>>

io_vars == <<task_inputs, task_outputs, input_env, input_files, input_globs,
             output_files, output_globs, io_call>>

env_vars == <<task_env, env_files, files, env_call>>

vars == <<deps_vars, io_vars, env_vars>>

----------------------------------------------------------------------------
(* Bounds *)

\* longest declared task.deps list
MaxDeps == 2

\* longest answer of the project query
MaxResults == 2

\* most lines of all the environment files together
MaxLines == 3

----------------------------------------------------------------------------
(* Values *)

ProjectIds == {"p1", "p2", "p3"}

\* rank of a project id in the ordering of strings (Vec<String>::sort)
IdRank == [p \in ProjectIds |-> CASE p = "p1" -> 1 [] p = "p2" -> 2 [] p = "p3" -> 3]

TaskIds == {"a", "b"}

\* context.project: the project that owns the task being expanded
project == [id |-> "p1", alias |-> "app"]

\* task.id and task.target of the task being expanded
task == [id |-> "a",
         target |-> [scope |-> "Project", scope_id |-> "p1", task_id |-> "a"]]

\* Option<bool> of TaskDependencyConfig.optional
OptionalFlags == {"none", "true", "false"}

\* Target::new(project_id, task_id)
TargetNew(project_id, task_id) ==
    [scope |-> "Project", scope_id |-> project_id, task_id |-> task_id]

NoTarget == [scope |-> "-", scope_id |-> "-", task_id |-> "-"]

\* TaskArgs::None, TaskArgs::String (the words of the string), TaskArgs::List
ArgsNone == [kind |-> "None", words |-> <<>>]
ArgsString(words) == [kind |-> "String", words |-> words]
ArgsList(words) == [kind |-> "List", words |-> words]

EnvKeys == {"K", "L"}
NoValue == "-"
EmptyEnv == [k \in EnvKeys |-> NoValue]

\* a task of a project: absent from project.tasks, or its options
NoTask == [present |-> FALSE, allow_failure |-> FALSE, run_in_ci |-> FALSE,
           persistent |-> FALSE]
TaskWith(allow_failure, run_in_ci, persistent) ==
    [present |-> TRUE, allow_failure |-> allow_failure, run_in_ci |-> run_in_ci,
     persistent |-> persistent]
PlainTask == TaskWith(FALSE, TRUE, FALSE)

NoError == [kind |-> "none", dep |-> NoTarget, task |-> NoTarget]
Error(kind, dep) == [kind |-> kind, dep |-> dep, task |-> task.target]

----------------------------------------------------------------------------
(* Collaborators *)

\* Project::matches_locator: a project is addressed by its id or its alias
matches_locator(project_locator) ==
    project_locator = project.id \/ project_locator = project.alias

\* Task::is_persistent
is_persistent(t) == t.persistent

\* parse_task_args: no words for None, the words of a string, the list itself
parse_task_args(args) == args.words

\* the token expander on one word: the $project token is the owning project's id
ExpandToken(word) == IF word = "$project" THEN project.id ELSE word

\* a token the expander refuses: a file group the owning project does not have
TokenFails(word) == word = "@files(none)"

\* TokenExpander::expand_args_with_task
expand_args_with_task(words) == [i \in 1..Len(words) |-> ExpandToken(words[i])]

\* TokenExpander::expand_env_with_task
expand_env_with_task(env) == [k \in EnvKeys |-> ExpandToken(env[k])]

\* value of one variable after substitution: a reference ${K} to a variable of the
\* map becomes that variable's value, anything else stays
SubstituteValue(env, value) ==
    IF value = "${K}" /\ env["K"] # NoValue THEN env["K"] ELSE value

\* substitute_env_vars
substitute_env_vars(env) == [k \in EnvKeys |-> SubstituteValue(env, env[k])]

----------------------------------------------------------------------------
(* expand_deps *)

\* the accumulator of one call: the local `deps` vector, the error that ended the
\* call, and (history) the queries issued and the candidates checked
EmptyAcc == [deps |-> <<>>, err |-> NoError, queries |-> <<>>, checked |-> <<>>]

Contains(seq, x) == \E i \in 1..Len(seq) : seq[i] = x

\* faulty variant: the dependency is pushed without the contains test
PushAlways(deps, dep) == Append(deps, dep)

\* faulty variant: a dependency that is already there moves to the end
PushLastSeen(deps, dep) == Append(SelectSeq(deps, LAMBDA d : d # dep), dep)

\* deps.contains(&dep) / deps.push(dep)
PushIfAbsent(deps, dep) == IF Contains(deps, dep) THEN deps ELSE Append(deps, dep)

\* dep.optional.unwrap_or(default)
UnwrapOr(optional, default) == IF optional = "none" THEN default ELSE optional = "true"

\* task.options of the task being expanded
OwnTask == project_tasks[project.id][task.id]

\* `?` on parse_task_args, expand_env_with_task and expand_args_with_task: the
\* error of the token expander, which ends the call
TokenError == [kind |-> "TokenExpanderError", dep |-> NoTarget, task |-> NoTarget]
ResolveError(dep) ==
    IF \/ \E k \in EnvKeys : TokenFails(dep.env[k])
       \/ \E i \in 1..Len(parse_task_args(dep.args)) :
              TokenFails(parse_task_args(dep.args)[i])
    THEN TokenError
    ELSE NoError

\* faulty variant: an unset optional flag is stored as false and an empty
\* argument list is stored as a list
ResolvedDepDefaulted(dep_project, dep) ==
    LET parsed   == parse_task_args(dep.args)
        dep_env  == expand_env_with_task(dep.env)
        dep_args == IF parsed # <<>> THEN expand_args_with_task(parsed) ELSE parsed
    IN  [args     |-> ArgsList(dep_args),
         env      |-> substitute_env_vars(dep_env),
         optional |-> IF dep.optional = "none" THEN "false" ELSE dep.optional,
         target   |-> TargetNew(dep_project, dep.target.task_id)]

\* the resolved TaskDependencyConfig built on acceptance
ResolvedDep(dep_project, dep) ==
    LET parsed   == parse_task_args(dep.args)
        dep_env  == expand_env_with_task(dep.env)
        dep_args == IF parsed # <<>> THEN expand_args_with_task(parsed) ELSE parsed
    IN  [args     |-> IF dep_args = <<>> THEN ArgsNone ELSE ArgsList(dep_args),
         env      |-> substitute_env_vars(dep_env),
         optional |-> dep.optional,
         target   |-> TargetNew(dep_project, dep.target.task_id)]

\* faulty variant: the allow_failure test comes after the CI test
ValidateCiFirst(dep_project, task_id, dep_task) ==
    IF check_ci_relationships /\ ~dep_task.run_in_ci /\ OwnTask.run_in_ci
    THEN Error("RunInCiDepRequirement", TargetNew(dep_project, task_id))
    ELSE IF dep_task.allow_failure
    THEN Error("AllowFailureDepRequirement", TargetNew(dep_project, task_id))
    ELSE IF is_persistent(dep_task) /\ ~is_persistent(OwnTask)
    THEN Error("PersistentDepRequirement", TargetNew(dep_project, task_id))
    ELSE NoError

\* faulty variant: the CI test ignores context.check_ci_relationships
ValidateCiAlways(dep_project, task_id, dep_task) ==
    IF dep_task.allow_failure
    THEN Error("AllowFailureDepRequirement", TargetNew(dep_project, task_id))
    ELSE IF ~dep_task.run_in_ci /\ OwnTask.run_in_ci
    THEN Error("RunInCiDepRequirement", TargetNew(dep_project, task_id))
    ELSE IF is_persistent(dep_task) /\ ~is_persistent(OwnTask)
    THEN Error("PersistentDepRequirement", TargetNew(dep_project, task_id))
    ELSE NoError

\* faulty variant: the persistence test has its two tasks exchanged
ValidatePersistentExchanged(dep_project, task_id, dep_task) ==
    IF dep_task.allow_failure
    THEN Error("AllowFailureDepRequirement", TargetNew(dep_project, task_id))
    ELSE IF check_ci_relationships /\ ~dep_task.run_in_ci /\ OwnTask.run_in_ci
    THEN Error("RunInCiDepRequirement", TargetNew(dep_project, task_id))
    ELSE IF ~is_persistent(dep_task) /\ is_persistent(OwnTask)
    THEN Error("PersistentDepRequirement", TargetNew(dep_project, task_id))
    ELSE NoError

\* the validation of one candidate: the error it raises, or NoError
\* (dep_task.target is the target of task `task_id` of project `dep_project`)
Validate(dep_project, task_id, dep_task) ==
    IF dep_task.allow_failure
    THEN Error("AllowFailureDepRequirement", TargetNew(dep_project, task_id))
    ELSE IF check_ci_relationships /\ ~dep_task.run_in_ci /\ OwnTask.run_in_ci
    THEN Error("RunInCiDepRequirement", TargetNew(dep_project, task_id))
    ELSE IF is_persistent(dep_task) /\ ~is_persistent(OwnTask)
    THEN Error("PersistentDepRequirement", TargetNew(dep_project, task_id))
    ELSE NoError

\* the closure check_and_push_dep(dep_project, dep, skip_if_missing)
check_and_push_dep(acc, dep_project, dep, skip_if_missing) ==
    LET dep_task == project_tasks[dep_project][dep.target.task_id]
        seen     == [acc EXCEPT !.checked =
                        Append(@, [project |-> dep_project, dep |-> dep,
                                   skip_if_missing |-> skip_if_missing])]
    IN  IF ~dep_task.present
        THEN IF skip_if_missing
             THEN seen
             ELSE [seen EXCEPT !.err =
                      Error("UnknownTarget", TargetNew(dep_project, dep.target.task_id))]
        ELSE LET e == Validate(dep_project, dep.target.task_id, dep_task)
             IN  IF e # NoError
                 THEN [seen EXCEPT !.err = e]
                 ELSE IF ResolveError(dep) # NoError
                 THEN [seen EXCEPT !.err = ResolveError(dep)]
                 ELSE [seen EXCEPT !.deps = PushIfAbsent(@, ResolvedDep(dep_project, dep))]

\* `for dep_project in results { check_and_push_dep(dep_project, dep, skip)?; }`
RECURSIVE PushEach(_, _, _, _)
PushEach(acc, results, dep, skip_if_missing) ==
    IF results = <<>> \/ acc.err # NoError
    THEN acc
    ELSE PushEach(check_and_push_dep(acc, Head(results), dep, skip_if_missing),
                  Tail(results), dep, skip_if_missing)

\* (self.context.query)(input)?: the call is recorded; a failure ends expand_deps
QueryError == [kind |-> "QueryError", dep |-> NoTarget, task |-> NoTarget]
Asked(acc, input) ==
    IF query[input].ok
    THEN [acc EXCEPT !.queries = Append(@, input)]
    ELSE [acc EXCEPT !.queries = Append(@, input), !.err = QueryError]

\* dep_ids.sort(): insertion of each id at its rank
RECURSIVE SortIds(_)
Insert(sorted, id) ==
    LET lower == SelectSeq(sorted, LAMBDA x : IdRank[x] <= IdRank[id])
        upper == SelectSeq(sorted, LAMBDA x : IdRank[x] > IdRank[id])
    IN  lower \o <<id>> \o upper
SortIds(ids) == IF ids = <<>> THEN <<>> ELSE Insert(SortIds(Tail(ids)), Head(ids))

\* dep_ids.join(",")
RECURSIVE Join(_)
Join(ids) ==
    IF ids = <<>> THEN ""
    ELSE IF Len(ids) = 1 THEN ids[1]
    ELSE ids[1] \o "," \o Join(Tail(ids))

\* the query input of the Deps scope
DepsQueryInput(dep_ids) ==
    IF Len(dep_ids) = 1
    THEN "project=" \o dep_ids[1]
    ELSE "project=[" \o Join(dep_ids) \o "]"

ProjectQueryInput(project_locator) == "project=" \o project_locator

TagQueryInput(tag) == "tag=" \o tag

\* faulty variant: the All scope is passed over instead of rejected
ScopeAllSkipped(acc, dep) == acc

\* TargetScope::All
ScopeAll(acc, dep) ==
    [acc EXCEPT !.err = Error("UnsupportedTargetScopeInDeps", dep.target)]

\* faulty variant: a project without dependencies cannot carry a Deps declaration
ScopeDepsRequired(acc, dep) ==
    LET dep_ids == dependency_ids
    IN  IF dep_ids # <<>>
        THEN LET input == DepsQueryInput(SortIds(dep_ids))
                 asked == Asked(acc, input)
             IN  IF asked.err # NoError THEN asked
                 ELSE PushEach(asked, query[input].projects, dep,
                               UnwrapOr(dep.optional, TRUE))
        ELSE [acc EXCEPT !.err = Error("UnknownTarget", dep.target)]

\* TargetScope::Deps
ScopeDeps(acc, dep) ==
    LET dep_ids == dependency_ids
    IN  IF dep_ids # <<>>
        THEN LET input == DepsQueryInput(SortIds(dep_ids))
                 asked == Asked(acc, input)
             IN  IF asked.err # NoError THEN asked
                 ELSE PushEach(asked, query[input].projects, dep,
                               UnwrapOr(dep.optional, TRUE))
        ELSE acc

\* faulty variant: a missing task of the owning project is skipped by default
ScopeOwnSelfSkipping(acc, dep) ==
    IF dep.target.task_id = task.id
    THEN acc
    ELSE check_and_push_dep(acc, project.id, dep, UnwrapOr(dep.optional, TRUE))

\* TargetScope::OwnSelf
ScopeOwnSelf(acc, dep) ==
    IF dep.target.task_id = task.id
    THEN acc
    ELSE check_and_push_dep(acc, project.id, dep, UnwrapOr(dep.optional, FALSE))

\* faulty variant: an empty answer of the query is not told from a non-empty one
ScopeProjectAnyAnswer(acc, dep) ==
    LET project_locator == dep.target.scope_id
    IN  IF matches_locator(project_locator)
        THEN IF dep.target.task_id = task.id
             THEN acc
             ELSE check_and_push_dep(acc, project.id, dep, FALSE)
        ELSE LET input == ProjectQueryInput(project_locator)
                 asked == Asked(acc, input)
             IN  IF asked.err # NoError THEN asked
                 ELSE PushEach(asked, query[input].projects, dep, FALSE)

\* TargetScope::Project(project_locator)
ScopeProject(acc, dep) ==
    LET project_locator == dep.target.scope_id
    IN  IF matches_locator(project_locator)
        THEN IF dep.target.task_id = task.id
             THEN acc
             ELSE check_and_push_dep(acc, project.id, dep, FALSE)
        ELSE LET input == ProjectQueryInput(project_locator)
                 asked == Asked(acc, input)
             IN  IF asked.err # NoError THEN asked
                 ELSE IF query[input].projects = <<>>
                 THEN [asked EXCEPT !.err = Error("UnknownTarget", dep.target)]
                 ELSE PushEach(asked, query[input].projects, dep, FALSE)

\* TargetScope::Tag(tag): the owning project is passed over
RECURSIVE PushEachTagged(_, _, _)
PushEachTagged(acc, results, dep) ==
    IF results = <<>> \/ acc.err # NoError
    THEN acc
    ELSE IF Head(results) = project.id
    THEN PushEachTagged(acc, Tail(results), dep)
    ELSE PushEachTagged(
             check_and_push_dep(acc, Head(results), dep, UnwrapOr(dep.optional, TRUE)),
             Tail(results), dep)

\* faulty variant: the owning project is a candidate like any other
ScopeTagAll(acc, dep) ==
    LET input == TagQueryInput(dep.target.scope_id)
        asked == Asked(acc, input)
    IN  IF asked.err # NoError THEN asked
        ELSE PushEach(asked, query[input].projects, dep, UnwrapOr(dep.optional, TRUE))

\* TargetScope::Tag(tag)
ScopeTag(acc, dep) ==
    LET input == TagQueryInput(dep.target.scope_id)
        asked == Asked(acc, input)
    IN  IF asked.err # NoError THEN asked
        ELSE PushEachTagged(asked, query[input].projects, dep)

\* `match &dep_target.scope`
ExpandOne(acc, dep) ==
    CASE dep.target.scope = "All"     -> ScopeAll(acc, dep)
      [] dep.target.scope = "Deps"    -> ScopeDeps(acc, dep)
      [] dep.target.scope = "OwnSelf" -> ScopeOwnSelf(acc, dep)
      [] dep.target.scope = "Project" -> ScopeProject(acc, dep)
      [] dep.target.scope = "Tag"     -> ScopeTag(acc, dep)

\* `for dep in &task.deps`: the first error returns from expand_deps
RECURSIVE ExpandEach(_, _)
ExpandEach(acc, deps) ==
    IF deps = <<>> \/ acc.err # NoError
    THEN acc
    ELSE ExpandEach(ExpandOne(acc, Head(deps)), Tail(deps))

\* faulty variant: the local vector is stored whether or not a declaration failed
CommittedAlways(old_deps, acc) == acc.deps

\* `task.deps = deps` is reached only when no declaration failed
Committed(old_deps, acc) == IF acc.err = NoError THEN acc.deps ELSE old_deps

NotCalled == [status |-> "none", err |-> NoError, queries |-> <<>>, checked |-> <<>>,
              local |-> <<>>]

\* TasksExpander::expand_deps.  The expansion of a task runs each step once, so
\* the call is taken on the task as declared.
expand_deps ==
    /\ deps_call.status = "none"
    /\ IF task_deps = <<>>
       THEN /\ deps_call' = [NotCalled EXCEPT !.status = "ok"]
            /\ UNCHANGED task_deps
       ELSE LET acc == ExpandEach(EmptyAcc, task_deps)
            IN  /\ task_deps' = Committed(task_deps, acc)
                /\ deps_call' = [status  |-> IF acc.err = NoError THEN "ok" ELSE "err",
                                 err     |-> acc.err,
                                 queries |-> acc.queries,
                                 checked |-> acc.checked,
                                 local   |-> acc.deps]
    /\ UNCHANGED <<declared_deps, project_tasks, dependency_ids,
                   check_ci_relationships, query>>
    /\ UNCHANGED io_vars
    /\ UNCHANGED env_vars

----------------------------------------------------------------------------
(* expand_inputs and expand_outputs *)

\* literal paths, glob patterns and environment variable names
FilePaths == {"src/a.ts", "src/gen.ts"}
GlobPatterns == {"src/**/*.ts", "dist/**"}
EnvNames == {"CI"}

\* what TokenExpander::expand_inputs / expand_outputs can answer: any partition of
\* the declared patterns into variables, files and globs, or a failure
ExpandedInputs ==
    [env : SUBSET EnvNames, files : SUBSET FilePaths, globs : SUBSET GlobPatterns]
ExpandedOutputs ==
    [env : {{}}, files : SUBSET FilePaths, globs : SUBSET GlobPatterns]
NoExpansion == [env |-> {}, files |-> {}, globs |-> {}]

\* history of a call: the method, its outcome, what the token expander answered,
\* and the resolved sets as they were when the call began
NoPrior == [input_env |-> {}, input_files |-> {}, input_globs |-> {},
            output_files |-> {}, output_globs |-> {}]
NoIoCall == [op |-> "none", status |-> "none", result |-> NoExpansion,
             prior |-> NoPrior]
IoCall(op, status, result) ==
    [op |-> op, status |-> status, result |-> result,
     prior |-> [input_env |-> input_env, input_files |-> input_files,
                input_globs |-> input_globs, output_files |-> output_files,
                output_globs |-> output_globs]]

\* faulty variant: the inputs are left as they are
RemoveNothing(inputs, outs) == inputs

\* `if inputs.contains(&x) { inputs.remove(&x); }` for every expanded output x
RemoveOutputs(inputs, outs) == {x \in inputs : x \notin outs}

\* faulty variant: the outputs become the expanded outputs of this call
ReplaceOutputs(outputs, outs) == outs

\* `outputs.insert(x)` for every expanded output x
InsertOutputs(outputs, outs) == outputs \cup outs

\* TasksExpander::expand_inputs
expand_inputs ==
    /\ \/ /\ task_inputs = <<>>
          /\ io_call' = IoCall("expand_inputs", "ok", NoExpansion)
          /\ UNCHANGED <<input_env, input_files, input_globs>>
       \/ /\ task_inputs # <<>>
          /\ io_call' = IoCall("expand_inputs", "err", NoExpansion)
          /\ UNCHANGED <<input_env, input_files, input_globs>>
       \/ /\ task_inputs # <<>>
          /\ \E result \in ExpandedInputs :
                /\ input_env' = input_env \cup result.env
                /\ input_files' = input_files \cup result.files
                /\ input_globs' = input_globs \cup result.globs
                /\ io_call' = IoCall("expand_inputs", "ok", result)
    /\ UNCHANGED <<task_inputs, task_outputs, output_files, output_globs>>
    /\ UNCHANGED deps_vars
    /\ UNCHANGED env_vars

\* TasksExpander::expand_outputs
expand_outputs ==
    /\ \/ /\ task_outputs = <<>>
          /\ io_call' = IoCall("expand_outputs", "ok", NoExpansion)
          /\ UNCHANGED <<input_files, input_globs, output_files, output_globs>>
       \/ /\ task_outputs # <<>>
          /\ io_call' = IoCall("expand_outputs", "err", NoExpansion)
          /\ UNCHANGED <<input_files, input_globs, output_files, output_globs>>
       \/ /\ task_outputs # <<>>
          /\ \E result \in ExpandedOutputs :
                /\ input_files' = RemoveOutputs(input_files, result.files)
                /\ output_files' = InsertOutputs(output_files, result.files)
                /\ input_globs' = RemoveOutputs(input_globs, result.globs)
                /\ output_globs' = InsertOutputs(output_globs, result.globs)
                /\ io_call' = IoCall("expand_outputs", "ok", result)
    /\ UNCHANGED <<task_inputs, task_outputs, input_env>>
    /\ UNCHANGED deps_vars
    /\ UNCHANGED env_vars

----------------------------------------------------------------------------
(* expand_env *)

\* context.workspace_root and context.project.source
workspace_root == "/ws"
project_source == "app"

\* a configured file reference: relative to the project or to the workspace
ProjectFile(file) == [scope |-> "project", file |-> file]
WorkspaceFile(file) == [scope |-> "workspace", file |-> file]

\* file.to_workspace_relative(project.source): a project-relative file goes under
\* the project's source, a workspace-relative one loses its leading slash
to_workspace_relative(file) ==
    IF file.scope = "project" THEN project_source \o "/" \o file.file ELSE file.file

\* relative.to_path(workspace_root)
to_path(relative) == workspace_root \o "/" \o relative

\* the absolute path of one configured environment file
EnvPath(file) == to_path(to_workspace_relative(file))

\* a path of the file system: nothing there, something that cannot be opened as
\* an environment file, or a file and the items dotenvy's iterator yields for it
MissingFile == [exists |-> FALSE, opens |-> FALSE, lines |-> <<>>]
UnreadableFile == [exists |-> TRUE, opens |-> FALSE, lines |-> <<>>]
EnvFile(lines) == [exists |-> TRUE, opens |-> TRUE, lines |-> lines]

\* one item of the iterator: a (key, value) pair, or the error of a line
Pair(key, val) == [ok |-> TRUE, key |-> key, val |-> val]
BadLine == [ok |-> FALSE, key |-> "-", val |-> "-"]

NoEnvError == [kind |-> "none", path |-> "-"]
InvalidEnvFile(path) == [kind |-> "InvalidEnvFile", path |-> path]
EnvTokenError == [kind |-> "TokenExpanderError", path |-> "-"]

\* TokenExpander::expand_env: the task's declared env with its tokens expanded
token_expand_env(env) == [k \in EnvKeys |-> ExpandToken(env[k])]

\* `?` on TokenExpander::expand_env
EnvTokenFails(env) == \E k \in EnvKeys : TokenFails(env[k])

\* the locals of the loading loop: merged_env_vars, missing_paths, and the error
\* that ended the call
EmptyLoad == [vars |-> EmptyEnv, missing |-> <<>>, err |-> NoEnvError]

\* faulty variant: a key that is already in the map keeps its value
InsertVarIfAbsent(merged_env_vars, key, val) ==
    IF merged_env_vars[key] = NoValue
    THEN [merged_env_vars EXCEPT ![key] = val]
    ELSE merged_env_vars

\* merged_env_vars.insert(key, val)
InsertVar(merged_env_vars, key, val) == [merged_env_vars EXCEPT ![key] = val]

\* faulty variant: a line that does not parse is passed over
ParseLineLenient(load, env_path, line) ==
    IF line.ok
    THEN [load EXCEPT !.vars = InsertVar(@, line.key, line.val)]
    ELSE load

\* `let (key, val) = line.map_err(handle_error)?; merged_env_vars.insert(key, val);`
ParseLine(load, env_path, line) ==
    IF line.ok
    THEN [load EXCEPT !.vars = InsertVar(@, line.key, line.val)]
    ELSE [load EXCEPT !.err = InvalidEnvFile(env_path)]

\* `for line in dotenvy::from_path_iter(&env_path)...`: the first error returns
RECURSIVE ReadLines(_, _, _)
ReadLines(load, env_path, lines) ==
    IF lines = <<>> \/ load.err # NoEnvError
    THEN load
    ELSE ReadLines(ParseLine(load, env_path, Head(lines)), env_path, Tail(lines))

\* faulty variant: a path that does not exist is an error
LoadFileStrict(load, env_path) ==
    IF files[env_path].exists /\ files[env_path].opens
    THEN ReadLines(load, env_path, files[env_path].lines)
    ELSE [load EXCEPT !.err = InvalidEnvFile(env_path)]

\* the body of `for env_path in env_paths`
LoadFile(load, env_path) ==
    IF files[env_path].exists
    THEN IF files[env_path].opens
         THEN ReadLines(load, env_path, files[env_path].lines)
         ELSE [load EXCEPT !.err = InvalidEnvFile(env_path)]
    ELSE [load EXCEPT !.missing = Append(@, env_path)]

\* `for env_path in env_paths`: the first error returns from expand_env
RECURSIVE LoadEach(_, _)
LoadEach(load, env_paths) ==
    IF env_paths = <<>> \/ load.err # NoEnvError
    THEN load
    ELSE LoadEach(LoadFile(load, Head(env_paths)), Tail(env_paths))

\* faulty variant: a variable of the files replaces the task's own
InsertOverriding(env, merged_env_vars) ==
    [k \in EnvKeys |-> IF merged_env_vars[k] # NoValue THEN merged_env_vars[k] ELSE env[k]]

\* `env.entry(key).or_insert(val)` for every (key, val) of merged_env_vars
InsertIfAbsent(env, merged_env_vars) ==
    [k \in EnvKeys |-> IF env[k] = NoValue THEN merged_env_vars[k] ELSE env[k]]

\* Option<Vec<..>> of task.options.env_files
NoEnvFiles == [some |-> FALSE, list |-> <<>>]
SomeEnvFiles(list) == [some |-> TRUE, list |-> list]

\* the paths of the configured files, in the configured order
EnvPaths(list) == [i \in 1..Len(list) |-> EnvPath(list[i])]

\* the outcome of expand_env on a declared env and a configured list: the error or
\* the new task.env, and (history) the env after token expansion, the variables
\* taken from the files, the paths found missing and the env before substitution
ExpandEnv(declared, configured) ==
    IF EnvTokenFails(declared)
    THEN [status |-> "err", err |-> EnvTokenError, env |-> declared,
          expanded |-> EmptyEnv, file_vars |-> EmptyEnv, missing |-> <<>>,
          merged |-> EmptyEnv]
    ELSE LET env  == token_expand_env(declared)
             load == IF configured.some
                     THEN LoadEach(EmptyLoad, EnvPaths(configured.list))
                     ELSE EmptyLoad
         IN  IF load.err # NoEnvError
             THEN [status |-> "err", err |-> load.err, env |-> declared,
                   expanded |-> env, file_vars |-> load.vars,
                   missing |-> load.missing, merged |-> EmptyEnv]
             ELSE LET merged == IF configured.some
                                THEN InsertIfAbsent(env, load.vars)
                                ELSE env
                  IN  [status |-> "ok", err |-> NoEnvError,
                       env |-> substitute_env_vars(merged),
                       expanded |-> env, file_vars |-> load.vars,
                       missing |-> load.missing, merged |-> merged]

NoEnvCall == [status |-> "none", err |-> NoEnvError, prior |-> EmptyEnv,
              expanded |-> EmptyEnv, file_vars |-> EmptyEnv, missing |-> <<>>,
              merged |-> EmptyEnv]

\* TasksExpander::expand_env.  The expansion of a task runs each step once, so the
\* call is taken on the env as declared.
expand_env ==
    /\ env_call.status = "none"
    /\ LET r == ExpandEnv(task_env, env_files)
       IN  /\ task_env' = r.env
           /\ env_call' = [status |-> r.status, err |-> r.err, prior |-> task_env,
                           expanded |-> r.expanded, file_vars |-> r.file_vars,
                           missing |-> r.missing, merged |-> r.merged]
    /\ UNCHANGED <<env_files, files>>
    /\ UNCHANGED deps_vars
    /\ UNCHANGED io_vars

----------------------------------------------------------------------------
(* Initial states of expand_deps: the declared task and its context.       *)
(* Three families of inputs: every scope against every answer of the       *)
(* query (InitScopes), every combination of task options (InitValidation)  *)
(* and every raw form of args and env (InitPayload).                       *)

Target(scope, scope_id, task_id) ==
    [scope |-> scope, scope_id |-> scope_id, task_id |-> task_id]

Dep(target, optional, args, env) ==
    [target |-> target, optional |-> optional, args |-> args, env |-> env]

PlainDep(target, optional) == Dep(target, optional, ArgsNone, EmptyEnv)

\* the scopes a declaration can carry: :t, ^:t, ~:t, p1:t, app:t, p2:t, #lint:t
ScopeTargets ==
    {Target("All", "", t) : t \in TaskIds}
    \cup {Target("Deps", "", t) : t \in TaskIds}
    \cup {Target("OwnSelf", "", t) : t \in TaskIds}
    \cup {Target("Project", l, t) : l \in {"p1", "app", "p2"}, t \in TaskIds}
    \cup {Target("Tag", "lint", t) : t \in TaskIds}

ScopeDecls == {PlainDep(tg, o) : tg \in ScopeTargets, o \in OptionalFlags}

RawArgs == {ArgsNone, ArgsString(<<>>), ArgsList(<<>>), ArgsString(<<"-v">>),
            ArgsList(<<"-v">>), ArgsList(<<"$project">>), ArgsList(<<"p1">>),
            ArgsList(<<"-v", "@files(none)">>)}

RawEnvs == {EmptyEnv,
            [EmptyEnv EXCEPT !["K"] = "v"],
            [EmptyEnv EXCEPT !["K"] = "v", !["L"] = "${K}"],
            [EmptyEnv EXCEPT !["K"] = "v", !["L"] = "v"],
            [EmptyEnv EXCEPT !["L"] = "${K}"],
            [EmptyEnv EXCEPT !["K"] = "@files(none)"]}

PayloadDecls ==
    {Dep(Target(s, "", "b"), o, a, e) :
        s \in {"OwnSelf", "Tag"}, o \in {"none", "true"}, a \in RawArgs, e \in RawEnvs}

\* sequences over S of length at most n
RECURSIVE SeqsUpTo(_, _)
SeqsUpTo(S, n) ==
    IF n = 0 THEN {<<>>}
    ELSE LET shorter == SeqsUpTo(S, n - 1)
         IN  shorter \cup {Append(s, x) : s \in shorter, x \in S}

\* sequences over S of length at most n without a repeated element
NoRepeat(seq) == \A i, j \in 1..Len(seq) : seq[i] = seq[j] => i = j
Answers(S, n) == {s \in SeqsUpTo(S, n) : NoRepeat(s)}

\* declared lists: a short prefix followed by one declaration
DeclaredLists(prefix, last) ==
    {<<>>} \cup {Append(p, d) : p \in SeqsUpTo(prefix, MaxDeps - 1), d \in last}

\* the query inputs the declarations of a list can issue
InputOf(dep, dep_ids) ==
    CASE dep.target.scope = "Deps" /\ dep_ids # <<>> -> {DepsQueryInput(SortIds(dep_ids))}
      [] dep.target.scope = "Project" /\ ~matches_locator(dep.target.scope_id) ->
             {ProjectQueryInput(dep.target.scope_id)}
      [] dep.target.scope = "Tag" -> {TagQueryInput(dep.target.scope_id)}
      [] OTHER -> {}

QueryInputs(deps, dep_ids) == UNION {InputOf(deps[i], dep_ids) : i \in 1..Len(deps)}

QueryOk(projects) == [ok |-> TRUE, projects |-> projects]
QueryFailed == [ok |-> FALSE, projects |-> <<>>]

Tasks(p1b, p2a, p2b, p3a, p3b, own) ==
    [p \in ProjectIds |-> [t \in TaskIds |->
        CASE p = "p1" /\ t = "a" -> own
          [] p = "p1" /\ t = "b" -> p1b
          [] p = "p2" /\ t = "a" -> p2a
          [] p = "p2" /\ t = "b" -> p2b
          [] p = "p3" /\ t = "a" -> p3a
          [] p = "p3" /\ t = "b" -> p3b]]

AnyTask == {NoTask} \cup {TaskWith(f, c, p) : f \in BOOLEAN, c \in BOOLEAN, p \in BOOLEAN}

InitDepsFrom(lists, worlds, ids, flags, answers) ==
    /\ task_deps \in lists
    /\ declared_deps = task_deps
    /\ project_tasks \in worlds
    /\ dependency_ids \in ids
    /\ check_ci_relationships \in flags
    /\ query \in [QueryInputs(task_deps, dependency_ids) -> answers]
    /\ deps_call = NotCalled
    /\ task_inputs = <<>> /\ task_outputs = <<>>
    /\ input_env = {} /\ input_files = {} /\ input_globs = {}
    /\ output_files = {} /\ output_globs = {}
    /\ io_call = NoIoCall
    /\ task_env = EmptyEnv /\ env_files = NoEnvFiles
    /\ files = <<>>
    /\ env_call = NoEnvCall

\* every scope, task id and optional flag, against any answer of the query
InitScopes ==
    InitDepsFrom(
        DeclaredLists({PlainDep(Target("OwnSelf", "", "b"), "none"),
                       PlainDep(Target("Tag", "lint", "b"), "none")}, ScopeDecls),
        {Tasks(p1b, PlainTask, p2b, NoTask, PlainTask, PlainTask) :
            p1b \in {NoTask, PlainTask}, p2b \in {NoTask, PlainTask}},
        {<<>>, <<"p2">>, <<"p3", "p2">>},
        {TRUE},
        {QueryFailed} \cup {QueryOk(r) : r \in Answers(ProjectIds, MaxResults)})

\* every combination of the options of the candidate and of the dependent task
InitValidation ==
    InitDepsFrom(
        DeclaredLists({PlainDep(Target("OwnSelf", "", "b"), "none")},
                      {PlainDep(Target(s, IF s = "Project" THEN "p2"
                                          ELSE IF s = "Tag" THEN "lint" ELSE "", "b"), o) :
                          s \in {"Deps", "OwnSelf", "Project", "Tag"},
                          o \in OptionalFlags}),
        {Tasks(p1b, PlainTask, p2b, NoTask, PlainTask, TaskWith(FALSE, c, p)) :
            p1b \in AnyTask, p2b \in AnyTask, c \in BOOLEAN, p \in BOOLEAN},
        {<<"p2">>},
        BOOLEAN,
        {QueryOk(<<"p2">>), QueryOk(<<"p3", "p2">>)})

\* every raw form of the arguments and of the environment of a declaration
InitPayload ==
    InitDepsFrom(
        DeclaredLists({Dep(Target("OwnSelf", "", "b"), "none", ArgsString(<<"-v">>),
                           EmptyEnv),
                       Dep(Target("OwnSelf", "", "b"), "none", ArgsList(<<"p1">>),
                           [EmptyEnv EXCEPT !["K"] = "v", !["L"] = "v"])},
                      PayloadDecls),
        {Tasks(PlainTask, PlainTask, PlainTask, PlainTask, PlainTask, PlainTask)},
        {<<>>},
        {FALSE},
        {QueryOk(<<"p2">>), QueryOk(<<"p2", "p3">>)})

InitDeps == InitScopes \/ InitValidation \/ InitPayload

NextDeps == expand_deps

SpecDeps == InitDeps /\ [][NextDeps]_vars

----------------------------------------------------------------------------
(* Initial states of expand_inputs and expand_outputs *)

\* a freshly built task: declared patterns, nothing resolved yet; expand_inputs
\* and expand_outputs are public and may be called in any order, any number of times
InitIo ==
    /\ task_inputs \in {<<>>, <<"src/**/*.ts", "src/a.ts", "$CI">>}
    /\ task_outputs \in {<<>>, <<"dist/**", "src/gen.ts">>}
    /\ input_env = {} /\ input_files = {} /\ input_globs = {}
    /\ output_files = {} /\ output_globs = {}
    /\ io_call = NoIoCall
    /\ task_deps = <<>> /\ declared_deps = <<>>
    /\ project_tasks = Tasks(PlainTask, PlainTask, PlainTask, PlainTask, PlainTask,
                             PlainTask)
    /\ dependency_ids = <<>>
    /\ check_ci_relationships = FALSE
    /\ query = <<>>
    /\ deps_call = NotCalled
    /\ task_env = EmptyEnv /\ env_files = NoEnvFiles
    /\ files = <<>>
    /\ env_call = NoEnvCall

NextIo == expand_inputs \/ expand_outputs

SpecIo == InitIo /\ [][NextIo]_vars

----------------------------------------------------------------------------
(* Initial states of expand_env: the declared env, the configured list and  *)
(* the file system.  Two families of inputs: two files of several lines,   *)
(* one of them under two references (InitLines), and three files of at     *)
(* most one line (InitMany).                                               *)

\* what a line of an environment file can be
FileLines == {Pair("K", "f1"), Pair("K", "f2"), Pair("L", "f1"), BadLine}

\* what can be at a path, with at most n lines
FileStates(n) ==
    {MissingFile, UnreadableFile} \cup {EnvFile(lines) : lines \in SeqsUpTo(FileLines, n)}

\* the lines of a file system
RECURSIVE SumLines(_, _)
SumLines(fs, paths) ==
    IF paths = {} THEN 0
    ELSE LET p == CHOOSE q \in paths : TRUE
         IN  Len(fs[p].lines) + SumLines(fs, paths \ {p})

\* the file systems on the paths of some references, with at most n lines a file
\* and MaxLines lines in all
FileSystems(refs, n) ==
    LET paths == {EnvPath(f) : f \in refs}
    IN  {fs \in [paths -> FileStates(n)] : SumLines(fs, paths) <= MaxLines}

\* the env a task declares
DeclaredEnvs == {EmptyEnv,
                 [EmptyEnv EXCEPT !["K"] = "t"],
                 [EmptyEnv EXCEPT !["K"] = "$project", !["L"] = "${K}"],
                 [EmptyEnv EXCEPT !["L"] = "${K}"],
                 [EmptyEnv EXCEPT !["K"] = "@files(none)"]}

\* no list, or any list of different references
ConfiguredLists(refs) ==
    {NoEnvFiles} \cup {SomeEnvFiles(l) : l \in Answers(refs, Cardinality(refs))}

InitEnvFrom(lists, systems) ==
    /\ task_env \in DeclaredEnvs
    /\ env_files \in lists
    /\ files \in systems
    /\ env_call = NoEnvCall
    /\ task_deps = <<>> /\ declared_deps = <<>>
    /\ project_tasks = Tasks(PlainTask, PlainTask, PlainTask, PlainTask, PlainTask,
                             PlainTask)
    /\ dependency_ids = <<>>
    /\ check_ci_relationships = FALSE
    /\ query = <<>>
    /\ deps_call = NotCalled
    /\ task_inputs = <<>> /\ task_outputs = <<>>
    /\ input_env = {} /\ input_files = {} /\ input_globs = {}
    /\ output_files = {} /\ output_globs = {}
    /\ io_call = NoIoCall

\* two files; the first and the third reference name the same path
LinesRefs == {ProjectFile(".env"), ProjectFile(".env.local"), WorkspaceFile("app/.env")}

InitLines == InitEnvFrom(ConfiguredLists(LinesRefs), FileSystems(LinesRefs, MaxLines))

\* three files of the project and of the workspace
ManyRefs == {ProjectFile(".env"), ProjectFile(".env.local"), WorkspaceFile(".env")}

InitMany == InitEnvFrom(ConfiguredLists(ManyRefs), FileSystems(ManyRefs, 1))

InitEnv == InitLines \/ InitMany

NextEnv == expand_env

SpecEnv == InitEnv /\ [][NextEnv]_vars

----------------------------------------------------------------------------
(* Properties of expand_deps *)

Called == deps_call.status # "none"
ReturnedOk == deps_call.status = "ok"
Failed == deps_call.status = "err"

\* the declarations before the i-th, and the call as it stood on reaching the i-th
Before(i) == ExpandEach(EmptyAcc, SubSeq(declared_deps, 1, i - 1))
ReachedDecl(i) == Before(i).err = NoError

\* the candidates handed to check_and_push_dep, in order
Checked == deps_call.checked
CandidateTask(c) == project_tasks[c.project][c.dep.target.task_id]
CandidateTarget(c) == TargetNew(c.project, c.dep.target.task_id)
TargetedTask(dep) == project_tasks[dep.target.scope_id][dep.target.task_id]

\* the call failed at the i-th checked candidate with an error of this kind naming it
FailedAt(i, kind) ==
    /\ Failed
    /\ i = Len(Checked)
    /\ deps_call.err = [kind |-> kind, dep |-> CandidateTarget(Checked[i]),
                        task |-> task.target]

RemoveAt(seq, j) == SubSeq(seq, 1, j - 1) \o SubSeq(seq, j + 1, Len(seq))

\* C1: after expand_deps returns Ok on a non-empty deps list, whatever the query
\* answered, no entry of task.deps has the dependent task's own target.
C1_NoSelfTarget ==
    (ReturnedOk /\ declared_deps # <<>>) =>
        \A i \in 1..Len(task_deps) : task_deps[i].target # task.target

\* C2: after expand_deps returns Ok, no two entries of task.deps have the same
\* (target, args, env, optional), and a declaration that repeats an earlier one adds
\* nothing: the list is the one obtained without the repetition.
C2_NoDuplicateEntries ==
    ReturnedOk =>
        /\ \A i, j \in 1..Len(task_deps) :
              (/\ task_deps[i].target = task_deps[j].target
               /\ task_deps[i].args = task_deps[j].args
               /\ task_deps[i].env = task_deps[j].env
               /\ task_deps[i].optional = task_deps[j].optional) => i = j
        /\ \A i, j \in 1..Len(declared_deps) :
              (i < j /\ declared_deps[i] = declared_deps[j]) =>
                  task_deps = ExpandEach(EmptyAcc, RemoveAt(declared_deps, j)).deps

\* two different declarations were both accepted and resolved to one entry
C2_Witness ==
    /\ ReturnedOk
    /\ Len(declared_deps) = 2
    /\ declared_deps[1] # declared_deps[2]
    /\ Len(Checked) = 2
    /\ \A i \in 1..2 : CandidateTask(Checked[i]).present
    /\ Len(task_deps) = 1

\* C4: when expand_deps fails, task.deps is what it was before the call and the
\* error is returned, also when earlier candidates had been accepted.
C4_FailureCommitsNothing ==
    Failed => (task_deps = declared_deps /\ deps_call.err # NoError)

\* the call failed after at least one candidate had been pushed to the local vector
C4_Witness ==
    /\ Failed
    /\ deps_call.local # <<>>
    /\ task_deps = declared_deps

\* C5: a checked candidate that exists and allows failure ends the call with
\* AllowFailureDepRequirement naming the candidate and the dependent task, whatever
\* the optional flag and the CI flag; after Ok no entry targets such a task.
C5_AllowFailureRejected ==
    Called =>
        /\ \A i \in 1..Len(Checked) :
              (CandidateTask(Checked[i]).present
                  /\ CandidateTask(Checked[i]).allow_failure)
              => FailedAt(i, "AllowFailureDepRequirement")
        /\ (ReturnedOk /\ declared_deps # <<>>) =>
              \A i \in 1..Len(task_deps) : ~TargetedTask(task_deps[i]).allow_failure

\* an optional dependency on a task that allows failure, does not run in CI and is
\* persistent, with the CI check enabled, was rejected for allowing failure
C5_Witness ==
    /\ Failed
    /\ deps_call.err.kind = "AllowFailureDepRequirement"
    /\ check_ci_relationships
    /\ OwnTask.run_in_ci
    /\ LET c == Checked[Len(Checked)]
       IN  /\ c.dep.optional = "true"
           /\ ~CandidateTask(c).run_in_ci
           /\ CandidateTask(c).persistent

\* C6: with check_ci_relationships, a dependent task that runs in CI and a checked
\* candidate that exists (and passed the allow-failure test) but does not run in CI
\* end the call with RunInCiDepRequirement; without the flag no call fails with that
\* error; with the flag, after Ok, no entry of a CI task targets a non-CI task.
C6_CiRelationship ==
    Called =>
        /\ \A i \in 1..Len(Checked) :
              (/\ check_ci_relationships
               /\ OwnTask.run_in_ci
               /\ CandidateTask(Checked[i]).present
               /\ ~CandidateTask(Checked[i]).allow_failure
               /\ ~CandidateTask(Checked[i]).run_in_ci)
              => FailedAt(i, "RunInCiDepRequirement")
        /\ ~check_ci_relationships => deps_call.err.kind # "RunInCiDepRequirement"
        /\ (ReturnedOk /\ declared_deps # <<>> /\ check_ci_relationships
               /\ OwnTask.run_in_ci) =>
              \A i \in 1..Len(task_deps) : TargetedTask(task_deps[i]).run_in_ci

\* a CI task was refused a dependency on a non-CI task
C6_Witness ==
    /\ Failed
    /\ deps_call.err.kind = "RunInCiDepRequirement"
    /\ check_ci_relationships
    /\ OwnTask.run_in_ci
    /\ ~CandidateTask(Checked[Len(Checked)]).run_in_ci

\* C7: a checked candidate that exists, passed the earlier tests and is persistent
\* while the dependent task is not ends the call with PersistentDepRequirement;
\* after Ok a non-persistent task has no entry on a persistent task; a persistent
\* dependent task is never refused for persistence.
C7_PersistentRelationship ==
    Called =>
        /\ \A i \in 1..Len(Checked) :
              (/\ CandidateTask(Checked[i]).present
               /\ ~CandidateTask(Checked[i]).allow_failure
               /\ ~(check_ci_relationships /\ OwnTask.run_in_ci
                       /\ ~CandidateTask(Checked[i]).run_in_ci)
               /\ CandidateTask(Checked[i]).persistent
               /\ ~OwnTask.persistent)
              => FailedAt(i, "PersistentDepRequirement")
        /\ OwnTask.persistent => deps_call.err.kind # "PersistentDepRequirement"
        /\ (ReturnedOk /\ declared_deps # <<>> /\ ~OwnTask.persistent) =>
              \A i \in 1..Len(task_deps) : ~TargetedTask(task_deps[i]).persistent

\* a non-persistent task was refused a dependency on a persistent task
C7_Witness ==
    /\ Failed
    /\ deps_call.err.kind = "PersistentDepRequirement"
    /\ ~OwnTask.persistent
    /\ CandidateTask(Checked[Len(Checked)]).persistent

\* C8: a deps list holding an All-scope declaration never returns Ok; when the
\* call reaches the first such declaration it fails with UnsupportedTargetScopeInDeps
\* naming that declaration's target and the dependent task, and issues no query
\* for it.
C8_AllScopeRejected ==
    Called =>
        \A i \in 1..Len(declared_deps) :
            declared_deps[i].target.scope = "All" =>
                /\ ~ReturnedOk
                /\ ((\A j \in 1..(i - 1) : declared_deps[j].target.scope # "All")
                        /\ ReachedDecl(i)) =>
                      /\ deps_call.err = [kind |-> "UnsupportedTargetScopeInDeps",
                                          dep  |-> declared_deps[i].target,
                                          task |-> task.target]
                      /\ deps_call.queries = Before(i).queries

\* an All-scope declaration was reached after a declaration that issued a query
C8_Witness ==
    /\ Failed
    /\ deps_call.err.kind = "UnsupportedTargetScopeInDeps"
    /\ Len(declared_deps) = 2
    /\ declared_deps[2].target.scope = "All"
    /\ Len(deps_call.queries) = 1

\* C9: a Project(locator) declaration that is reached, whose locator does not match
\* the owning project and whose query returns no project, fails the call with
\* UnknownTarget naming the declared target and the dependent task, whatever its
\* optional flag.
C9_UnknownProject ==
    Called =>
        \A i \in 1..Len(declared_deps) :
            (/\ declared_deps[i].target.scope = "Project"
             /\ ~matches_locator(declared_deps[i].target.scope_id)
             /\ ReachedDecl(i)
             /\ query[ProjectQueryInput(declared_deps[i].target.scope_id)]
                    = QueryOk(<<>>))
            => /\ Failed
               /\ deps_call.err = [kind |-> "UnknownTarget",
                                   dep  |-> declared_deps[i].target,
                                   task |-> task.target]

\* an explicitly optional dependency on a project the query does not know failed
C9_Witness ==
    /\ Failed
    /\ deps_call.err.kind = "UnknownTarget"
    /\ Checked = <<>>
    /\ Len(declared_deps) = 1
    /\ declared_deps[1].target.scope = "Project"
    /\ declared_deps[1].optional = "true"
    /\ deps_call.queries = <<ProjectQueryInput(declared_deps[1].target.scope_id)>>

\* the skip-if-missing flag the claim gives a declaration of each scope
DeclaredSkip(dep) ==
    CASE dep.target.scope \in {"Deps", "Tag"} -> UnwrapOr(dep.optional, TRUE)
      [] dep.target.scope = "OwnSelf" -> UnwrapOr(dep.optional, FALSE)
      [] OTHER -> FALSE

\* C10: for a checked candidate project without the declared task: the flag is the
\* explicit optional value, else true for Deps and Tag and false for OwnSelf, and
\* always false for a Project(locator) that is another project; with the flag the
\* candidate adds no entry and no error, without it the call fails with
\* UnknownTarget naming candidate-project:task and the dependent task.
C10_MissingTask ==
    Called =>
        /\ \A i \in 1..Len(Checked) :
              LET c == Checked[i]
              IN  ~CandidateTask(c).present =>
                     /\ (c.dep.target.scope = "Project"
                            => ~matches_locator(c.dep.target.scope_id))
                        => c.skip_if_missing = DeclaredSkip(c.dep)
                     /\ IF c.skip_if_missing
                        THEN LET r == check_and_push_dep(EmptyAcc, c.project, c.dep,
                                                         c.skip_if_missing)
                             IN  r.deps = <<>> /\ r.err = NoError
                        ELSE FailedAt(i, "UnknownTarget")
        /\ (ReturnedOk /\ declared_deps # <<>>) =>
              \A i \in 1..Len(task_deps) : TargetedTask(task_deps[i]).present

\* one missing task was skipped and the call went on to accept another candidate
C10_Witness ==
    /\ ReturnedOk
    /\ \E i \in 1..Len(Checked) :
          /\ ~CandidateTask(Checked[i]).present
          /\ Checked[i].skip_if_missing
          /\ Checked[i].dep.optional = "none"
    /\ task_deps # <<>>

----------------------------------------------------------------------------
(* Properties of expand_outputs *)

OutputsReturnedOk == io_call.op = "expand_outputs" /\ io_call.status = "ok"

\* C3 (as stated): after expand_outputs returns Ok, input_files and output_files are
\* disjoint and input_globs and output_globs are disjoint, whatever the four sets
\* held before the call.
C3_DisjointAfterOutputs ==
    OutputsReturnedOk =>
        (input_files \cap output_files = {} /\ input_globs \cap output_globs = {})

\* C3 (amended): after expand_outputs returns Ok, no expanded output file is left in
\* input_files and no expanded output glob in input_globs, every one of them is in
\* the output sets, and inputs and outputs overlap only where they already
\* overlapped before the call (so they are disjoint if they were).
C3_OutputsLeaveInputs ==
    OutputsReturnedOk =>
        /\ input_files \cap io_call.result.files = {}
        /\ input_globs \cap io_call.result.globs = {}
        /\ io_call.result.files \subseteq output_files
        /\ io_call.result.globs \subseteq output_globs
        /\ (input_files \cap output_files)
              \subseteq (io_call.prior.input_files \cap io_call.prior.output_files)
        /\ (input_globs \cap output_globs)
              \subseteq (io_call.prior.input_globs \cap io_call.prior.output_globs)

\* an expanded output file and an expanded output glob were both inputs before
C3_Witness ==
    /\ OutputsReturnedOk
    /\ io_call.result.files \cap io_call.prior.input_files # {}
    /\ io_call.result.globs \cap io_call.prior.input_globs # {}
    /\ input_files \cap output_files = {}
    /\ input_globs \cap output_globs = {}

----------------------------------------------------------------------------
(* Properties of expand_env *)

EnvCalled == env_call.status # "none"
EnvReturnedOk == env_call.status = "ok"
EnvFailed == env_call.status = "err"

\* the configured list and the file behind its i-th reference
Configured == env_files.list
FileAt(i) == files[EnvPath(Configured[i])]

\* the j-th line of the i-th configured file defines key k
Defines(i, j, k) ==
    /\ FileAt(i).exists /\ FileAt(i).opens
    /\ j \in 1..Len(FileAt(i).lines)
    /\ FileAt(i).lines[j].ok
    /\ FileAt(i).lines[j].key = k

DefinedInFiles(k) ==
    \E i \in 1..Len(Configured) : \E j \in 1..MaxLines : Defines(i, j, k)

\* the value the task itself declares for a key, after token expansion
TaskDeclared(k) == ExpandToken(env_call.prior[k])

\* C11: after expand_env returns Ok, every key of the task's own token-expanded env
\* has the task-declared value in the merged env (before substitution), whatever
\* the loaded files define for it; a key of the merged env that the task does not
\* declare has a value some loaded file defines for it.
C11_TaskEnvWins ==
    EnvReturnedOk =>
        \A k \in EnvKeys :
            /\ env_call.prior[k] # NoValue => env_call.merged[k] = TaskDeclared(k)
            /\ (env_call.prior[k] = NoValue /\ env_call.merged[k] # NoValue) =>
                  \E i \in 1..Len(Configured) : \E j \in 1..MaxLines :
                      /\ Defines(i, j, k)
                      /\ FileAt(i).lines[j].val = env_call.merged[k]

\* two loaded files define a key that the task declares with another value
C11_Witness ==
    /\ EnvReturnedOk
    /\ env_call.prior["K"] = "$project"
    /\ env_call.merged["K"] = "p1"
    /\ \E i1, i2 \in 1..Len(Configured) :
          /\ EnvPath(Configured[i1]) # EnvPath(Configured[i2])
          /\ \E j \in 1..MaxLines : Defines(i1, j, "K")
          /\ \E j \in 1..MaxLines : Defines(i2, j, "K")

\* C12: a configured file that does not exist raises no error and adds no key:
\* a failed call has the error of the token expander or InvalidEnvFile of a file
\* that exists; the outcome (Ok or the error, the merged env and task.env) is that
\* of the same call without the missing reference; with nothing but missing files
\* the call returns Ok whenever the token expander does, with the task's own env.
C12_MissingFileTolerated ==
    EnvCalled =>
        /\ EnvFailed =>
              \/ env_call.err = EnvTokenError
              \/ \E i \in 1..Len(Configured) :
                    /\ FileAt(i).exists
                    /\ env_call.err = InvalidEnvFile(EnvPath(Configured[i]))
        /\ \A i \in 1..Len(Configured) :
              ~FileAt(i).exists =>
                  LET r == ExpandEnv(env_call.prior,
                                     SomeEnvFiles(RemoveAt(Configured, i)))
                  IN  /\ r.status = env_call.status
                      /\ r.err = env_call.err
                      /\ r.merged = env_call.merged
                      /\ r.env = task_env
        /\ (/\ ~EnvTokenFails(env_call.prior)
            /\ \A i \in 1..Len(Configured) : ~FileAt(i).exists) =>
              /\ EnvReturnedOk
              /\ env_call.merged = [k \in EnvKeys |-> TaskDeclared(k)]

\* a missing file was listed before a file whose variable was merged
C12_Witness ==
    /\ EnvReturnedOk
    /\ env_call.missing # <<>>
    /\ \E i1, i2 \in 1..Len(Configured) :
          /\ i1 < i2
          /\ ~FileAt(i1).exists
          /\ \E j \in 1..MaxLines :
                /\ Defines(i2, j, "K")
                /\ env_call.prior["K"] = NoValue
                /\ env_call.merged["K"] = FileAt(i2).lines[j].val

\* the i-th configured file exists and does not parse: it cannot be opened, or
\* one of its lines is in error
Invalid(i) ==
    /\ FileAt(i).exists
    /\ \/ ~FileAt(i).opens
       \/ \E j \in 1..Len(FileAt(i).lines) : ~FileAt(i).lines[j].ok

\* C13: when the token expander succeeds, the first configured file that exists
\* and does not parse (at open or at any line) fails the call with InvalidEnvFile
\* carrying that file's path; a call with such a file never returns Ok; and every
\* failed call leaves task.env as it was, whatever was read before the failure.
C13_InvalidFileFails ==
    EnvCalled =>
        /\ \A i \in 1..Len(Configured) :
              (/\ Invalid(i)
               /\ \A h \in 1..(i - 1) : ~Invalid(h)
               /\ ~EnvTokenFails(env_call.prior)) =>
                  /\ EnvFailed
                  /\ env_call.err = InvalidEnvFile(EnvPath(Configured[i]))
        /\ (\E i \in 1..Len(Configured) : Invalid(i)) => EnvFailed
        /\ EnvFailed => task_env = env_call.prior

\* the call failed at the second line of the second file, after a variable of the
\* first file and a variable of the first line had been read, and the task, which
\* declares neither, has neither
C13_Witness ==
    /\ EnvFailed
    /\ Len(Configured) >= 2
    /\ env_call.err = InvalidEnvFile(EnvPath(Configured[2]))
    /\ \E j \in 1..MaxLines : Defines(1, j, "K")
    /\ Defines(2, 1, "L")
    /\ env_call.file_vars["K"] # NoValue
    /\ env_call.file_vars["L"] # NoValue
    /\ env_call.prior = EmptyEnv
    /\ task_env = EmptyEnv

\* line j2 of the i2-th configured file is read after line j1 of the i1-th
Later(i1, j1, i2, j2) == i2 > i1 \/ (i2 = i1 /\ j2 > j1)

\* C16: after expand_env returns Ok, the value taken from the files for a key is
\* the one of the last line defining it in the last listed existing file defining
\* it, wherever missing files stand in the list; a key no loaded file defines gets
\* no value from the files; and that value is the merged one of every key the
\* task does not declare.
C16_LastFileWins ==
    EnvReturnedOk =>
        \A k \in EnvKeys :
            /\ \A i \in 1..Len(Configured) : \A j \in 1..MaxLines :
                  (/\ Defines(i, j, k)
                   /\ ~\E i2 \in 1..Len(Configured) : \E j2 \in 1..MaxLines :
                          Later(i, j, i2, j2) /\ Defines(i2, j2, k)) =>
                      env_call.file_vars[k] = FileAt(i).lines[j].val
            /\ ~DefinedInFiles(k) => env_call.file_vars[k] = NoValue
            /\ env_call.prior[k] = NoValue => env_call.merged[k] = env_call.file_vars[k]

\* of three listed files the second is missing and the first and the third give a
\* key different values: the third file's value was taken
C16_Witness ==
    /\ EnvReturnedOk
    /\ Len(Configured) = 3
    /\ ~FileAt(2).exists
    /\ Defines(1, 1, "K")
    /\ Defines(3, 1, "K")
    /\ FileAt(1).lines[1].val # FileAt(3).lines[1].val
    /\ env_call.file_vars["K"] = FileAt(3).lines[1].val
    /\ env_call.merged["K"] = FileAt(3).lines[1].val

----------------------------------------------------------------------------
(* Properties of expand_deps: the resolved list *)

Range(seq) == {seq[i] : i \in 1..Len(seq)}

\* the projects of a Tag declaration's answer that the claim lets through: not the
\* owning project, and holding the declared task
TaggedMembers(dep) ==
    SelectSeq(query[TagQueryInput(dep.target.scope_id)].projects,
              LAMBDA p : p # project.id /\ project_tasks[p][dep.target.task_id].present)

\* C14: after expand_deps returns Ok, a Tag declaration on task t has added exactly
\* the entries <project>:t of the projects the query tag=<tag> returned that are not
\* the owning project and hold t, each once, in the order of the answer when it is
\* the only declaration; no Tag declaration ever makes the owning project a
\* candidate, whatever t and the owning project's tasks; a project without t is
\* passed over when optional is unset.
C14_TagMembers ==
    /\ ReturnedOk =>
          \A i \in 1..Len(declared_deps) :
              declared_deps[i].target.scope = "Tag" =>
                  LET dep     == declared_deps[i]
                      members == TaggedMembers(dep)
                      entries == {ResolvedDep(members[n], dep) : n \in 1..Len(members)}
                  IN  /\ Contains(deps_call.queries, TagQueryInput(dep.target.scope_id))
                      /\ Range(Before(i + 1).deps) = Range(Before(i).deps) \cup entries
                      /\ \A e \in entries :
                            Cardinality({m \in 1..Len(task_deps) : task_deps[m] = e}) = 1
                      /\ Len(declared_deps) = 1 =>
                            task_deps = [n \in 1..Len(members) |->
                                            ResolvedDep(members[n], dep)]
    /\ Called =>
          \A n \in 1..Len(Checked) :
              Checked[n].dep.target.scope = "Tag" =>
                  /\ Checked[n].project # project.id
                  /\ Checked[n].dep.optional = "none" => Checked[n].skip_if_missing

\* two Tag declarations with optional unset, on task b and on the dependent task's
\* own id: the owning project carries the tag and holds b, another tagged project
\* lacks one of the tasks, and an entry was resolved
C14_Witness ==
    /\ ReturnedOk
    /\ Len(declared_deps) = 2
    /\ \A i \in 1..2 : /\ declared_deps[i].target.scope = "Tag"
                       /\ declared_deps[i].optional = "none"
    /\ declared_deps[1].target.task_id = "b"
    /\ declared_deps[2].target.task_id = task.id
    /\ Contains(query[TagQueryInput("lint")].projects, project.id)
    /\ project_tasks[project.id]["b"].present
    /\ \E n \in 1..Len(Checked) : ~CandidateTask(Checked[n]).present
    /\ task_deps # <<>>

\* the query inputs of the Project and Tag declarations of the declared list
DeclaredInputs ==
    {ProjectQueryInput(declared_deps[i].target.scope_id) :
        i \in {n \in 1..Len(declared_deps) : declared_deps[n].target.scope = "Project"}}
    \cup {TagQueryInput(declared_deps[i].target.scope_id) :
        i \in {n \in 1..Len(declared_deps) : declared_deps[n].target.scope = "Tag"}}

\* C15: when the owning project has no project-dependencies, a Deps declaration
\* that is reached leaves the call as it stood (no entry, no error, no query),
\* whatever its optional flag; no candidate is checked for it and every query of the
\* call is the one of a Project or Tag declaration; when it is the only declaration
\* expand_deps returns Ok with task.deps empty.
C15_NoProjectDependencies ==
    (Called /\ dependency_ids = <<>>) =>
        /\ \A i \in 1..Len(declared_deps) :
              (declared_deps[i].target.scope = "Deps" /\ ReachedDecl(i)) =>
                  /\ Before(i + 1).deps = Before(i).deps
                  /\ Before(i + 1).err = NoError
                  /\ Before(i + 1).queries = Before(i).queries
        /\ \A n \in 1..Len(Checked) : Checked[n].dep.target.scope # "Deps"
        /\ Range(deps_call.queries) \subseteq DeclaredInputs
        /\ (Len(declared_deps) = 1 /\ declared_deps[1].target.scope = "Deps") =>
              (ReturnedOk /\ task_deps = <<>> /\ deps_call.queries = <<>>)

\* the only declaration is a Deps declaration with optional explicitly false, on a
\* task no project-dependency could be asked for
C15_Witness ==
    /\ ReturnedOk
    /\ dependency_ids = <<>>
    /\ Len(declared_deps) = 1
    /\ declared_deps[1].target.scope = "Deps"
    /\ declared_deps[1].optional = "false"
    /\ task_deps = <<>>
    /\ deps_call.queries = <<>>

\* the declared list with its i-th declaration addressed as ~:task
AsOwnSelf(i) ==
    [declared_deps EXCEPT ![i].target = Target("OwnSelf", "", @.task_id)]

\* C17: a Project(locator) declaration whose locator matches the owning project
\* gives the outcome of the OwnSelf declaration on the same task id: the call ends
\* with the same error, or with the same resolved list, as the call on the list
\* where that declaration is addressed as OwnSelf, for every task id, every state
\* of the owning project's tasks and every optional flag.
C17_ProjectLikeOwnSelf ==
    Called =>
        \A i \in 1..Len(declared_deps) :
            (/\ declared_deps[i].target.scope = "Project"
             /\ matches_locator(declared_deps[i].target.scope_id)) =>
                LET twin == ExpandEach(EmptyAcc, AsOwnSelf(i))
                IN  /\ twin.err = deps_call.err
                    /\ twin.err = NoError => twin.deps = task_deps

\* the candidate projects of a declaration, in the order the claim gives them: the
\* owning project for ~:t and for a locator that matches it (none when t is the
\* dependent task's id), else the answer of the declaration's query, a Tag answer
\* without the owning project
CandidatesOf(dep) ==
    CASE dep.target.scope = "Deps" ->
             IF dependency_ids = <<>> THEN <<>>
             ELSE query[DepsQueryInput(SortIds(dependency_ids))].projects
      [] dep.target.scope = "OwnSelf"
            \/ (dep.target.scope = "Project" /\ matches_locator(dep.target.scope_id)) ->
             IF dep.target.task_id = task.id THEN <<>> ELSE <<project.id>>
      [] dep.target.scope = "Project" /\ ~matches_locator(dep.target.scope_id) ->
             query[ProjectQueryInput(dep.target.scope_id)].projects
      [] dep.target.scope = "Tag" ->
             SelectSeq(query[TagQueryInput(dep.target.scope_id)].projects,
                       LAMBDA p : p # project.id)
      [] OTHER -> <<>>

\* the entries a declaration produces: one for every candidate holding the task
ProducedBy(dep) ==
    LET holding == SelectSeq(CandidatesOf(dep),
                             LAMBDA p : project_tasks[p][dep.target.task_id].present)
    IN  [n \in 1..Len(holding) |-> ResolvedDep(holding[n], dep)]

\* every production of the call, in declaration order
RECURSIVE Productions(_)
Productions(deps) ==
    IF deps = <<>> THEN <<>> ELSE ProducedBy(Head(deps)) \o Productions(Tail(deps))

\* the elements of a sequence at their first positions
FirstSeen(seq) ==
    LET first == {n \in 1..Len(seq) : \A m \in 1..(n - 1) : seq[m] # seq[n]}
        nth(k) == CHOOSE n \in first : Cardinality({m \in first : m < n}) = k - 1
    IN  [k \in 1..Cardinality(first) |-> seq[nth(k)]]

\* C18: after expand_deps returns Ok on a non-empty list, task.deps holds the
\* productions of the call in first-seen order: declaration by declaration and,
\* within a declaration, in the order of the query's answer; an entry produced
\* again stays where it was first produced and adds nothing.
C18_FirstSeenOrder ==
    (ReturnedOk /\ declared_deps # <<>>) =>
        task_deps = FirstSeen(Productions(declared_deps))

\* an entry of a two-project answer was produced again by a later declaration and
\* stayed first
C18_Witness ==
    /\ ReturnedOk
    /\ Len(declared_deps) = 2
    /\ Len(task_deps) = 2
    /\ Len(ProducedBy(declared_deps[1])) = 2
    /\ ProducedBy(declared_deps[2]) = <<task_deps[1]>>

\* the argument words a declaration resolves to
ResolvedWords(dep) ==
    [n \in 1..Len(parse_task_args(dep.args)) |-> ExpandToken(parse_task_args(dep.args)[n])]

\* C19: after expand_deps returns Ok on a non-empty list, every entry of task.deps
\* has a Project-scope target naming a project and a task that exists in it, has
\* the no-args value exactly when its resolved argument list is empty (and a list
\* otherwise), and comes from a declaration on the same task id that has the
\* entry's project among its candidates, resolves to the entry's arguments and
\* carries the entry's optional flag as declared (unset stays unset).
C19_FullyQualifiedEntries ==
    (ReturnedOk /\ declared_deps # <<>>) =>
        \A m \in 1..Len(task_deps) :
            LET entry == task_deps[m]
            IN  /\ entry.target.scope = "Project"
                /\ entry.target.scope_id \in ProjectIds
                /\ entry.target.task_id \in TaskIds
                /\ TargetedTask(entry).present
                /\ entry.args.kind \in {"None", "List"}
                /\ entry.args.kind = "None" <=> entry.args.words = <<>>
                /\ \E i \in 1..Len(declared_deps) :
                      /\ Contains(CandidatesOf(declared_deps[i]), entry.target.scope_id)
                      /\ declared_deps[i].target.task_id = entry.target.task_id
                      /\ entry.args.words = ResolvedWords(declared_deps[i])
                      /\ entry.optional = declared_deps[i].optional

\* a Tag declaration with optional unset and an empty argument list gave an entry
\* of a Project-scope target, no args and optional unset
C19_Witness ==
    /\ ReturnedOk
    /\ Len(declared_deps) = 1
    /\ declared_deps[1].target.scope = "Tag"
    /\ declared_deps[1].optional = "none"
    /\ declared_deps[1].args = ArgsList(<<>>)
    /\ Len(task_deps) >= 1
    /\ task_deps[1].target.scope = "Project"
    /\ task_deps[1].args = ArgsNone
    /\ task_deps[1].optional = "none"

----------------------------------------------------------------------------
(* Properties of expand_outputs: what the call changes *)

\* the glob pattern would match the path
GlobMatches(glob, path) == glob = "src/**/*.ts" /\ path \in {"src/a.ts", "src/gen.ts"}

\* C20: after expand_outputs returns Ok, input_files is what it was without the
\* expanded output files and input_globs what it was without the expanded output
\* globs: an input glob stays unless it is itself an expanded output glob, also
\* when it matches an expanded output file, and an input file stays unless it is
\* itself an expanded output file, also when an expanded output glob matches it;
\* the output sets keep what they held and gain the expanded outputs; input_env
\* is unchanged; with an empty outputs list nothing changes.
C20_LikeWithLike ==
    io_call.op = "expand_outputs" =>
        /\ OutputsReturnedOk =>
              /\ input_files = io_call.prior.input_files \ io_call.result.files
              /\ input_globs = io_call.prior.input_globs \ io_call.result.globs
              /\ \A g \in io_call.prior.input_globs :
                    g \notin io_call.result.globs => g \in input_globs
              /\ \A f \in io_call.prior.input_files :
                    f \notin io_call.result.files => f \in input_files
              /\ output_files = io_call.prior.output_files \cup io_call.result.files
              /\ output_globs = io_call.prior.output_globs \cup io_call.result.globs
        /\ input_env = io_call.prior.input_env
        /\ task_outputs = <<>> =>
              /\ OutputsReturnedOk
              /\ input_files = io_call.prior.input_files
              /\ input_globs = io_call.prior.input_globs
              /\ output_files = io_call.prior.output_files
              /\ output_globs = io_call.prior.output_globs

\* an expanded output file left the input files while the input glob that matches
\* it stayed, an output file of an earlier call was kept, and input_env held a
\* variable
C20_Witness ==
    /\ OutputsReturnedOk
    /\ \E f \in io_call.result.files \cap io_call.prior.input_files :
          \E g \in io_call.prior.input_globs : GlobMatches(g, f) /\ g \in input_globs
    /\ io_call.prior.output_files \ io_call.result.files # {}
    /\ io_call.prior.output_files \subseteq output_files
    /\ input_env # {}

====
